---- MODULE Spec2Model ----
(***************************************************************************)
(* Model of the spreadsheet ingestion pipeline                             *)
(* (clean_and_update_headers.py), of the keyword-driven SQL generator      *)
(* (chatbot.py), of the table they share and of the web handlers           *)
(* (webapp.py).  Python str values are TLA+ strings; the string methods    *)
(* the code calls (strip, lower, replace, split/join, slicing, `in`) are   *)
(* operators computed character by character.                              *)
(***************************************************************************)
EXTENDS Integers, Sequences, FiniteSets, TLC

\* df             the raw sheet read with header=None: rows of cells
\* header_row     0-based index of the header row
\* data_start_row 0-based index of the first data row
\* headers        the column names create_careful_headers returned
\* filtered_df    the rows extract_actual_data returned
\* data_df        the rows after ultra_careful_cleaning, as text
\* schema         the chatbot's column names, in table order
\* question       the text handed to _natural_language_to_sql
\* intent         the generator its if/elif chain called
\* sql_query      the statement it returned
\* pc             the step of main, or of the chatbot, that runs next
\* file           the source spreadsheet on disk, as pandas would read it
\* table          the investment_projects table of the store
\* runs           ingestion runs started so far
\* bot            "none" before InvestmentDataChatbot is constructed, then "ready"
\* result         what execute_query did for the last question
\* success        the success flag of the last ask_question reply
\* listing        the last reply of the column listing
\* stats          the last reply of /stats
VARIABLES df, header_row, data_start_row, headers, filtered_df, data_df,
          schema, question, intent, sql_query, pc,
          file, table, runs, bot, result, success, listing, stats

ingestVars == <<df, header_row, data_start_row, headers, filtered_df, data_df>>

askVars == <<question, intent, sql_query, result, success>>

vars == <<df, header_row, data_start_row, headers, filtered_df, data_df,
          schema, question, intent, sql_query, pc,
          file, table, runs, bot, result, success, listing, stats>>

(***************************************************************************)
(* Bounds of the model                                                     *)
(***************************************************************************)
\* longest header row drawn as an input
MaxCols == 3
\* most rows of a raw sheet drawn as an input
MaxRows == 2
\* most phrases joined into one question
MaxWords == 2
\* most ingestion runs in one behaviour
MaxRuns == 2
\* most rows of a boundary-detection sheet that differ from its background
MaxMarked == 2

(***************************************************************************)
(* Python string primitives                                                *)
(***************************************************************************)
Ch(s, i) == SubSeq(s, i, i)

\* Python's `k in s` for strings
Contains(s, k) ==
    \E i \in 1..(Len(s) - Len(k) + 1) : SubSeq(s, i, i + Len(k) - 1) = k

IsWs(c) == c \in {" ", "\t", "\n", "\r"}

\* positions of s holding a character that is not whitespace
NonWs(s) == {i \in 1..Len(s) : ~IsWs(Ch(s, i))}

SetMin(S) == CHOOSE x \in S : \A y \in S : x <= y
SetMax(S) == CHOOSE x \in S : \A y \in S : x >= y

\* str.strip()
Strip(s) ==
    IF NonWs(s) = {} THEN "" ELSE SubSeq(s, SetMin(NonWs(s)), SetMax(NonWs(s)))

UpperAlphabet == "ABCDEFGHIJKLMNOPQRSTUVWXYZ"
LowerAlphabet == "abcdefghijklmnopqrstuvwxyz"

LowerCh(c) ==
    IF \E i \in 1..Len(UpperAlphabet) : Ch(UpperAlphabet, i) = c
    THEN Ch(LowerAlphabet, CHOOSE i \in 1..Len(UpperAlphabet) : Ch(UpperAlphabet, i) = c)
    ELSE c

\* str.lower(), character by character (the string is halved to keep the
\* evaluation shallow)
RECURSIVE Lower(_)
Lower(s) ==
    IF Len(s) = 0 THEN ""
    ELSE IF Len(s) = 1 THEN LowerCh(s)
    ELSE Lower(SubSeq(s, 1, Len(s) \div 2)) \o Lower(SubSeq(s, Len(s) \div 2 + 1, Len(s)))

\* str.replace(c, r) for a one-character c
RECURSIVE Replace(_, _, _)
Replace(s, c, r) ==
    IF Len(s) = 0 THEN ""
    ELSE IF Len(s) = 1 THEN (IF s = c THEN r ELSE s)
    ELSE Replace(SubSeq(s, 1, Len(s) \div 2), c, r)
         \o Replace(SubSeq(s, Len(s) \div 2 + 1, Len(s)), c, r)

\* the characters of s[lo..hi] that sep.join(filter(None, s.split(sep)))
\* keeps: every non-separator, and one separator after each piece but the
\* last
RECURSIVE KeepJoined(_, _, _, _, _)
KeepJoined(s, sep, lo, hi, last) ==
    IF lo > hi THEN ""
    ELSE IF lo = hi
         THEN (IF Ch(s, lo) # sep THEN Ch(s, lo)
               ELSE IF lo > 1 /\ Ch(s, lo - 1) # sep /\ lo < last THEN sep
               ELSE "")
    ELSE KeepJoined(s, sep, lo, (lo + hi) \div 2, last)
         \o KeepJoined(s, sep, (lo + hi) \div 2 + 1, hi, last)

\* sep.join(filter(None, s.split(sep))) for a one-character sep
SplitJoin(s, sep) ==
    LET pieces == {i \in 1..Len(s) : Ch(s, i) # sep}
    IN IF pieces = {} THEN "" ELSE KeepJoined(s, sep, 1, Len(s), SetMax(pieces))

Digit(d) == Ch("0123456789", d + 1)

\* str(i) / f"{i}" for a natural number
RECURSIVE IntToStr(_)
IntToStr(n) == IF n < 10 THEN Digit(n) ELSE IntToStr(n \div 10) \o Digit(n % 10)

RECURSIVE Rep(_, _)
Rep(c, n) ==
    IF n = 0 THEN ""
    ELSE IF n = 1 THEN c
    ELSE Rep(c, n \div 2) \o Rep(c, n - n \div 2)

(***************************************************************************)
(* Raw cells: what pandas hands back for a cell read with header=None      *)
(***************************************************************************)
NaN == [kind |-> "nan", s |-> "", n |-> 0]
Txt(t) == [kind |-> "str", s |-> t, n |-> 0]
Num(k) == [kind |-> "int", s |-> "", n |-> k]

\* pd.isna(val)
IsNa(val) == val.kind = "nan"

\* str(val)
Str(val) ==
    CASE val.kind = "nan" -> "nan"
      [] val.kind = "str" -> val.s
      [] val.kind = "int" -> IntToStr(val.n)

\* df.iloc[r] for a 0-based row index
Row(sheet, r) == sheet[r + 1]

Min(a, b) == IF a < b THEN a ELSE b

(***************************************************************************)
(* find_data_boundaries                                                    *)
(***************************************************************************)
\* "for i in range(min(25, len(df)))"
HeaderScanLimit == 25
\* "if score >= 4"
HeaderScoreNeeded == 4
\* "for i in range(min(15, len(df)))"
DensityScanLimit == 15
\* "header_row = 8  # Safe fallback"
FallbackHeaderRow == 8
\* "min(data_start_row + 10, len(df))"
InstructionScanLimit == 10

\* ' '.join(texts)
RECURSIVE JoinTexts(_)
JoinTexts(texts) ==
    IF Len(texts) = 0 THEN ""
    ELSE IF Len(texts) = 1 THEN texts[1]
    ELSE texts[1] \o " " \o JoinTexts(Tail(texts))

\* row_text: the lower-cased texts of the non-NaN cells, joined by blanks
RowText(row) ==
    LET present == SelectSeq(row, LAMBDA val : ~IsNa(val))
    IN JoinTexts([k \in 1..Len(present) |-> Lower(Str(present[k]))])

\* header_indicators of one row, as the set of indicators that are True
header_indicators(row_text) ==
    {k \in {"id", "company", "region", "plant", "customer", "description",
            "investment", "budget"} :
        IF k = "id"
        THEN Contains(row_text, "id")
             /\ (Contains(row_text, "change") \/ Contains(row_text, "delete"))
        ELSE Contains(row_text, k)}

\* score = sum(header_indicators.values())
HeaderScore(row) ==
    LET row_text == RowText(row) IN Cardinality(header_indicators(row_text))

\* the first loop: the first row, among the first 25, scoring at least 4;
\* -1 stands for None
RECURSIVE ScoreLoop(_, _)
ScoreLoop(sheet, i) ==
    IF i >= Min(HeaderScanLimit, Len(sheet)) THEN -1
    ELSE IF HeaderScore(Row(sheet, i)) >= HeaderScoreNeeded THEN i
    ELSE ScoreLoop(sheet, i + 1)

\* non_empty of one row
NonEmptyCount(row) ==
    Cardinality({c \in 1..Len(row) : ~IsNa(row[c]) /\ Strip(Str(row[c])) # ""})

\* density > 0.3, for density = non_empty / ncols
DenseEnough(non_empty, ncols) == 10 * non_empty > 3 * ncols

DensityLoop_LastBest(sheet, i, max_non_empty, best) ==
    LET rows == {r \in 0..(Min(DensityScanLimit, Len(sheet)) - 1) :
                    DenseEnough(NonEmptyCount(Row(sheet, r)), Len(Row(sheet, r)))}
        top == {r \in rows : \A q \in rows :
                    NonEmptyCount(Row(sheet, q)) <= NonEmptyCount(Row(sheet, r))}
    IN IF top = {} THEN -1 ELSE SetMax(top)

\* the density loop; densities share the denominator len(df.columns), so
\* max_density is carried as its numerator
RECURSIVE DensityLoop(_, _, _, _)
DensityLoop(sheet, i, max_non_empty, best) ==
    IF i >= Min(DensityScanLimit, Len(sheet)) THEN best
    ELSE LET non_empty == NonEmptyCount(Row(sheet, i))
         IN IF non_empty > max_non_empty /\ DenseEnough(non_empty, Len(Row(sheet, i)))
            THEN DensityLoop(sheet, i + 1, non_empty, i)
            ELSE DensityLoop(sheet, i + 1, max_non_empty, best)

\* header_row as the function settles it
HeaderRowOf(sheet) ==
    LET scored == ScoreLoop(sheet, 0)
        densest == DensityLoop(sheet, 0, 0, -1)
    IN IF scored # -1 THEN scored
       ELSE IF densest # -1 THEN densest
       ELSE FallbackHeaderRow

instruction_indicators ==
    {"mandatory", "optional", "select", "input", "formula", "linked",
     "default", "fill in", "do not add", "delete", "collumn"}

IsInstructionRow(row) ==
    LET row_text == RowText(row)
    IN \E indicator \in instruction_indicators : Contains(row_text, indicator)

\* "Skip instruction/format rows": i runs over range(first, stop)
RECURSIVE SkipLoop(_, _, _, _)
SkipLoop(sheet, i, stop, start) ==
    IF i >= stop THEN start
    ELSE IF IsInstructionRow(Row(sheet, i)) THEN SkipLoop(sheet, i + 1, stop, i + 1)
    ELSE start

DataStartRowOf(sheet, hrow) ==
    SkipLoop(sheet, hrow + 1, Min(hrow + 1 + InstructionScanLimit, Len(sheet)), hrow + 1)

\* the pair find_data_boundaries returns
find_data_boundaries(sheet) ==
    CHOOSE pair \in {<<hrow, DataStartRowOf(sheet, hrow)>> :
                         hrow \in {HeaderRowOf(sheet)}} : TRUE

(***************************************************************************)
(* create_careful_headers                                                  *)
(***************************************************************************)
\* the length cap of the generic clean-up
NameCap == 60

ColumnName(i) == "column_" \o IntToStr(i)

\* header_str: strip, newlines to spaces, ' '.join(header_str.split())
HeaderStr(header) ==
    LET stripped == Strip(Str(header))
        spaced == Replace(Replace(Replace(stripped, "\n", " "), "\r", " "), "\t", " ")
    IN SplitJoin(spaced, " ")

\* "Limit length": clean_name[:60] when longer than 60
LimitLength(clean_name) ==
    IF Len(clean_name) > NameCap THEN SubSeq(clean_name, 1, NameCap) ELSE clean_name

EmptyFallback_NoCheck(clean_name, i) == clean_name

\* f'column_{i}' when nothing is left of the label
EmptyFallback(clean_name, i) ==
    IF clean_name = "" \/ clean_name = "_" THEN ColumnName(i) ELSE clean_name

\* the else branch: general cleaning while preserving meaning
GeneralClean(header_str, i) ==
    LET c1 == Replace(Replace(Replace(header_str, "/", "_"), "-", "_"), " ", "_")
        c2 == Replace(Replace(Replace(Replace(c1, "(", ""), ")", ""), "[", ""), "]", "")
        c3 == Replace(Replace(Replace(Replace(c2, "\n", "_"), "\r", "_"), "\"", ""), "'", "")
        c4 == Replace(Replace(Replace(c3, "?", ""), "!", ""), "&", "and")
        c5 == SplitJoin(c4, "_")
    IN EmptyFallback(LimitLength(c5), i)

\* clean_name of column i, given the names used so far
CleanName(header, i, used_names) ==
    IF IsNa(header) \/ Strip(Str(header)) = "" THEN ColumnName(i)
    ELSE
      LET header_str == HeaderStr(header)
          header_lower == Lower(header_str)
          has(k) == Contains(header_lower, k)
      IN
      IF has("id") /\ (has("change") \/ has("delete") \/ has("add")) THEN "project_id"
      ELSE IF header_lower = "company" THEN "company"
      ELSE IF header_lower = "region" THEN "region"
      ELSE IF header_lower = "plant" THEN "plant"
      ELSE IF header_lower = "customer" THEN "customer"
      ELSE IF has("cost center")
           THEN (IF "cost_center" \notin used_names THEN "cost_center"
                 ELSE "cost_center_" \o IntToStr(i))
      ELSE IF has("description")
           THEN (IF "description" \notin used_names THEN "description"
                 ELSE "description_" \o IntToStr(i))
      ELSE IF has("investment") /\ has("category") THEN "investment_category"
      ELSE IF has("budget") \/ has("total") THEN "budget_" \o IntToStr(i)
      ELSE IF has("april") /\ has("2025") THEN "april_2025"
      ELSE IF has("may") /\ has("2025") THEN "may_2025"
      ELSE GeneralClean(header_str, i)

\* the while loop: append _1, _2, ... until the name is unused
RECURSIVE NextFreeName(_, _, _, _)
NextFreeName(final_name, clean_name, counter, used_names) ==
    IF final_name \in used_names
    THEN NextFreeName(Lower(clean_name) \o "_" \o IntToStr(counter),
                      clean_name, counter + 1, used_names)
    ELSE final_name

\* "Handle duplicates - ensure uniqueness"
FinalName(clean_name, used_names) ==
    NextFreeName(Lower(clean_name), clean_name, 1, used_names)

RangeOf(seq) == {seq[k] : k \in 1..Len(seq)}

\* the for loop over enumerate(headers); column k of the model is index k-1
RECURSIVE HeaderLoop(_, _, _, _)
HeaderLoop(hs, k, cleaned_headers, used_names) ==
    IF k > Len(hs) THEN cleaned_headers
    ELSE LET final_name == FinalName(CleanName(hs[k], k - 1, used_names), used_names)
         IN HeaderLoop(hs, k + 1, Append(cleaned_headers, final_name),
                       used_names \cup {final_name})

\* the repair loop of the "Verify no duplicates" block
RECURSIVE FixLoop(_, _, _, _)
FixLoop(cleaned_headers, k, final_headers, final_used) ==
    IF k > Len(cleaned_headers) THEN final_headers
    ELSE LET header == cleaned_headers[k]
             new_header == IF header \in final_used
                           THEN header \o "_" \o IntToStr(k - 1)
                           ELSE header
         IN FixLoop(cleaned_headers, k + 1, Append(final_headers, new_header),
                    final_used \cup {new_header})

VerifyNoDuplicates(cleaned_headers) ==
    IF Len(cleaned_headers) # Cardinality(RangeOf(cleaned_headers))
    THEN FixLoop(cleaned_headers, 1, <<>>, {})
    ELSE cleaned_headers

create_careful_headers(sheet, r) ==
    VerifyNoDuplicates(HeaderLoop(Row(sheet, r), 1, <<>>, {}))

(***************************************************************************)
(* extract_actual_data                                                     *)
(***************************************************************************)
\* "Check first 5 columns for any meaningful content"
KeyColumnLimit == 5

KeyColumns_AllColumns(ncols) == ncols

\* key_columns = min(5, len(data_df.columns))
KeyColumns(ncols) == Min(KeyColumnLimit, ncols)

\* one term of has_data_mask: the cell, as text, is non-empty, not '0',
\* not 'nan' and not 'NaN'
HasContent(val) ==
    LET col_value == Str(val)
    IN Strip(col_value) # "" /\ col_value # "0"
       /\ col_value # "nan" /\ col_value # "NaN"

\* has_data_mask of one row
HasData(row) == \E i \in 1..KeyColumns(Len(row)) : HasContent(row[i])

\* df.iloc[data_start_row:]
RowsFrom(sheet, start) ==
    IF start >= Len(sheet) THEN <<>> ELSE SubSeq(sheet, start + 1, Len(sheet))

\* data_df[has_data_mask]
RECURSIVE KeepRows(_)
KeepRows(rows) ==
    IF Len(rows) = 0 THEN <<>>
    ELSE IF HasData(Head(rows)) THEN <<Head(rows)>> \o KeepRows(Tail(rows))
    ELSE KeepRows(Tail(rows))

extract_actual_data(sheet, start) == KeepRows(RowsFrom(sheet, start))

(***************************************************************************)
(* ultra_careful_cleaning                                                  *)
(***************************************************************************)
nan_representations == {"nan", "NaN", "<NA>", "None"}

error_values == {"#VALUE!", "#REF!", "#DIV/0!", "#N/A", "#NAME?", "#NULL!", "#NUM!"}

CleanText_NoErrorCodes(text) ==
    LET v1 == IF text \in nan_representations THEN "0" ELSE text
        v2 == IF v1 = "" THEN "0" ELSE v1
    IN IF Strip(v2) = "" THEN "0" ELSE v2

\* the four masks, applied in the order of the loop body to one cell's text
CleanText(text) ==
    LET v1 == IF text \in nan_representations THEN "0" ELSE text
        v2 == IF v1 = "" THEN "0" ELSE v1
        v3 == IF Strip(v2) = "" THEN "0" ELSE v2
    IN IF v3 \in error_values THEN "0" ELSE v3

\* df.astype(str), then the masks on every column
ultra_careful_cleaning(rows) ==
    [r \in 1..Len(rows) |-> [c \in 1..Len(rows[r]) |-> CleanText(Str(rows[r][c]))]]

(***************************************************************************)
(* InvestmentDataChatbot: SQL generation                                   *)
(***************************************************************************)
table_name == "investment_projects"

AnyIn(words, q) == \E word \in words : Contains(q, word)

Dispatch_AvgFirst(q) ==
    IF AnyIn({"average", "avg", "mean"}, q) THEN "AVG"
    ELSE IF AnyIn({"count", "how many", "number of"}, q) THEN "COUNT"
    ELSE IF AnyIn({"total", "sum", "amount"}, q) THEN "SUM"
    ELSE IF AnyIn({"list", "show", "display", "get"}, q) THEN "SELECT"
    ELSE IF AnyIn({"maximum", "max", "highest", "largest"}, q) THEN "MAX"
    ELSE IF AnyIn({"minimum", "min", "lowest", "smallest"}, q) THEN "MIN"
    ELSE "GENERAL"

\* the if/elif chain of _natural_language_to_sql: which generator is called
Dispatch(q) ==
    IF AnyIn({"count", "how many", "number of"}, q) THEN "COUNT"
    ELSE IF AnyIn({"total", "sum", "amount"}, q) THEN "SUM"
    ELSE IF AnyIn({"average", "avg", "mean"}, q) THEN "AVG"
    ELSE IF AnyIn({"list", "show", "display", "get"}, q) THEN "SELECT"
    ELSE IF AnyIn({"maximum", "max", "highest", "largest"}, q) THEN "MAX"
    ELSE IF AnyIn({"minimum", "min", "lowest", "smallest"}, q) THEN "MIN"
    ELSE "GENERAL"

base_query == "SELECT COUNT(*) as count FROM " \o table_name

\* the WHERE clause the COUNT, SUM and SELECT templates share
NotBlank(col) ==
    col \o " IS NOT NULL AND " \o col \o " != '0' AND " \o col \o " != ''"

GroupedCount(col) ==
    "SELECT " \o col \o ", COUNT(*) as count FROM " \o table_name
    \o " WHERE " \o NotBlank(col) \o " GROUP BY " \o col \o " ORDER BY count DESC"

FilteredCount(col) == base_query \o " WHERE " \o NotBlank(col)

generate_count_query(q) ==
    IF Contains(q, "company")
    THEN (IF Contains(q, "by company") \/ Contains(q, "per company")
          THEN GroupedCount("company") ELSE FilteredCount("company"))
    ELSE IF Contains(q, "region")
    THEN (IF Contains(q, "by region") \/ Contains(q, "per region")
          THEN GroupedCount("region") ELSE FilteredCount("region"))
    ELSE IF Contains(q, "project") THEN base_query
    ELSE IF Contains(q, "customer")
    THEN (IF Contains(q, "by customer")
          THEN GroupedCount("customer") ELSE FilteredCount("customer"))
    ELSE base_query

IsBudgetColumn(col) ==
    Contains(col, "budget") \/ Contains(col, "total") \/ Contains(col, "value")

\* budget_columns, in the order of self.schema.keys()
budget_columns(sch) == SelectSeq(sch, IsBudgetColumn)

main_budget_col_Last(sch) == budget_columns(sch)[Len(budget_columns(sch))]

\* budget_columns[0]
main_budget_col(sch) == budget_columns(sch)[1]

CastReal(col) == "CAST(" \o col \o " AS REAL)"

generate_sum_query(q, sch) ==
    IF Len(budget_columns(sch)) > 0
    THEN LET sum == "SUM(" \o CastReal(main_budget_col(sch)) \o ") as total" IN
         IF Contains(q, "by company")
         THEN "SELECT company, " \o sum \o " FROM " \o table_name \o " WHERE "
              \o NotBlank("company") \o " GROUP BY company ORDER BY total DESC"
         ELSE IF Contains(q, "by region")
         THEN "SELECT region, " \o sum \o " FROM " \o table_name \o " WHERE "
              \o NotBlank("region") \o " GROUP BY region ORDER BY total DESC"
         ELSE "SELECT " \o sum \o " FROM " \o table_name
    ELSE "SELECT COUNT(*) as count FROM " \o table_name

generate_avg_query(q, sch) ==
    IF Len(budget_columns(sch)) > 0
    THEN LET avg == "AVG(" \o CastReal(main_budget_col(sch)) \o ") as average" IN
         IF Contains(q, "by company")
         THEN "SELECT Company, " \o avg \o " FROM " \o table_name
              \o " WHERE Company IS NOT NULL AND Company != '0'"
              \o " GROUP BY Company ORDER BY average DESC"
         ELSE IF Contains(q, "by region")
         THEN "SELECT Region, " \o avg \o " FROM " \o table_name
              \o " WHERE Region IS NOT NULL AND Region != '0'"
              \o " GROUP BY Region ORDER BY average DESC"
         ELSE "SELECT " \o avg \o " FROM " \o table_name
    ELSE "SELECT COUNT(*) as count FROM " \o table_name

SelectDistinct(col) ==
    "SELECT DISTINCT " \o col \o " FROM " \o table_name \o " WHERE "
    \o NotBlank(col) \o " ORDER BY " \o col

generate_select_query(q) ==
    IF Contains(q, "company") THEN SelectDistinct("company")
    ELSE IF Contains(q, "region") THEN SelectDistinct("region")
    ELSE IF Contains(q, "customer") THEN SelectDistinct("customer")
    ELSE IF Contains(q, "plant") THEN SelectDistinct("plant")
    ELSE "SELECT * FROM " \o table_name \o " LIMIT 10"

generate_max_query(q, sch) ==
    IF Len(budget_columns(sch)) > 0
    THEN "SELECT *, MAX(" \o CastReal(main_budget_col(sch)) \o ") as max_value FROM "
         \o table_name
    ELSE "SELECT * FROM " \o table_name \o " LIMIT 1"

generate_min_query(q, sch) ==
    IF Len(budget_columns(sch)) > 0
    THEN "SELECT *, MIN(" \o CastReal(main_budget_col(sch)) \o ") as min_value FROM "
         \o table_name \o " WHERE " \o CastReal(main_budget_col(sch)) \o " > 0"
    ELSE "SELECT * FROM " \o table_name \o " LIMIT 1"

generate_general_query(q) == "SELECT * FROM " \o table_name \o " LIMIT 10"

\* question.lower().strip()
NormalizeQuestion(text) == Strip(Lower(text))

Generate(branch, q, sch) ==
    CASE branch = "COUNT" -> generate_count_query(q)
      [] branch = "SUM" -> generate_sum_query(q, sch)
      [] branch = "AVG" -> generate_avg_query(q, sch)
      [] branch = "SELECT" -> generate_select_query(q)
      [] branch = "MAX" -> generate_max_query(q, sch)
      [] branch = "MIN" -> generate_min_query(q, sch)
      [] OTHER -> generate_general_query(q)

natural_language_to_sql(text, sch) ==
    LET q == NormalizeQuestion(text) IN Generate(Dispatch(q), q, sch)

\* str.endswith
EndsWith(s, k) == Len(s) >= Len(k) /\ SubSeq(s, Len(s) - Len(k) + 1, Len(s)) = k

IsSep(s, i) == Ch(s, i) \in {" ", ",", "(", ")"}

\* the maximal runs of s without blank, comma or parenthesis
Tokens(s) ==
    {SubSeq(s, i, SetMin({j \in i..Len(s) : j = Len(s) \/ IsSep(s, j + 1)})) :
        i \in {i \in 1..Len(s) : ~IsSep(s, i) /\ (i = 1 \/ IsSep(s, i - 1))}}

SqlWords ==
    {"select", "distinct", "count", "sum", "avg", "max", "min", "cast", "as",
     "real", "from", "where", "is", "not", "null", "and", "group", "by",
     "order", "desc", "limit", "*", "!=", ">", "'0'", "''", "0", "1", "10",
     "total", "average", "max_value", "min_value", "investment_projects"}

\* the column names a statement refers to (SQLite compares them without case)
NamedColumns(sql) == Tokens(Lower(sql)) \ SqlWords

(***************************************************************************)
(* The store: the table, and what SQLite does with a statement             *)
(***************************************************************************)
NoTable == [exists |-> FALSE, columns |-> <<>>, rows |-> <<>>]

HasBuiltinName(hdrs) == "id" \in RangeOf(hdrs) \/ "created_at" \in RangeOf(hdrs)

NewTable_NoDrop(old, hdrs, rows) ==
    IF HasBuiltinName(hdrs) THEN NoTable
    ELSE IF old.exists /\ old.columns = <<"id">> \o hdrs \o <<"created_at">>
         THEN [old EXCEPT !.rows = old.rows \o rows]
         ELSE [exists |-> TRUE,
               columns |-> <<"id">> \o hdrs \o <<"created_at">>,
               rows |-> rows]

\* step 7 of main: DROP TABLE IF EXISTS, CREATE TABLE with id, the headers
\* and created_at, then the rows appended; CREATE TABLE fails on a header
\* named like a built-in column and leaves no table
NewTable(old, hdrs, rows) ==
    IF HasBuiltinName(hdrs) THEN NoTable
    ELSE [exists |-> TRUE,
          columns |-> <<"id">> \o hdrs \o <<"created_at">>,
          rows |-> rows]

\* PRAGMA table_info: the column names, lower-cased; nothing for no table
get_table_schema(tbl) ==
    IF tbl.exists THEN [k \in 1..Len(tbl.columns) |-> Lower(tbl.columns[k])] ELSE <<>>

\* the values of column d over the rows (id and created_at hold no text)
ColumnValues(tbl, d) ==
    LET k == CHOOSE k \in 1..Len(tbl.columns) : tbl.columns[k] = d
    IN IF k = 1 \/ k = Len(tbl.columns) THEN {}
       ELSE {tbl.rows[r][k - 1] : r \in 1..Len(tbl.rows)}

\* the values a statement's WHERE clause on d lets through
Selected(lsql, tbl, d) ==
    ColumnValues(tbl, d)
    \ {v \in {"0", ""} : Contains(lsql, d \o " != '" \o v \o "'")}

NoResult == [done |-> FALSE, failed |-> FALSE, nrows |-> 0]

\* execute_query: the except branch when the table or a named column is
\* missing, else the number of rows of the DataFrame
execute_query(sql, tbl) ==
    LET lsql == Lower(sql)
        keyed == {d \in RangeOf(tbl.columns) :
                     \/ Contains(lsql, " group by " \o d \o " ")
                     \/ Contains(lsql, "select distinct " \o d \o " ")}
    IN IF ~tbl.exists \/ ~(NamedColumns(sql) \subseteq RangeOf(tbl.columns))
       THEN [done |-> TRUE, failed |-> TRUE, nrows |-> 0]
       ELSE [done |-> TRUE, failed |-> FALSE, nrows |->
               IF keyed # {}
               THEN Cardinality(Selected(lsql, tbl, CHOOSE d \in keyed : TRUE))
               ELSE IF Contains(lsql, "count(*)") \/ Contains(lsql, "(cast(") THEN 1
               ELSE IF EndsWith(lsql, " limit 10") THEN Min(10, Len(tbl.rows))
               ELSE IF EndsWith(lsql, " limit 1") THEN Min(1, Len(tbl.rows))
               ELSE Len(tbl.rows)]

schema_in_use_Reread(sch, tbl) == get_table_schema(tbl)

\* the schema the generators read: self.schema, never the store
schema_in_use(sch, tbl) == sch

\* ask_question: 'success' is "not result_df.empty"
success_flag(res) == res.nrows > 0

\* /stats: an error reply when a statement fails, else the four numbers
get_stats(tbl, sch) ==
    IF ~tbl.exists \/ ~({"company", "region"} \subseteq RangeOf(tbl.columns))
    THEN [error |-> TRUE, total_projects |-> 0, unique_companies |-> 0,
          unique_regions |-> 0, total_columns |-> 0]
    ELSE [error |-> FALSE,
          total_projects |-> Len(tbl.rows),
          unique_companies |-> Cardinality(ColumnValues(tbl, "company") \ {"0", ""}),
          unique_regions |-> Cardinality(ColumnValues(tbl, "region") \ {"0", ""}),
          total_columns |-> Len(sch)]

(***************************************************************************)
(* Inputs                                                                  *)
(***************************************************************************)
\* a label one character longer than the cap
LongLabel == Rep("a", NameCap + 1)

\* header cells: blank, repeated, same-rule, empty-after-cleaning, colliding
\* with a generated name, over-long, numeric
HeaderCells ==
    {NaN, Txt(" "), Txt("Company"), Txt("company "), Txt("company_1"),
     Txt("Cost Center"), Txt("()"), Txt("column_1"), Txt(LongLabel),
     Txt("Net\nValue (EUR)"), Txt("ID (change/delete)"), Num(5)}

HeaderRows == UNION {[1..n -> HeaderCells] : n \in 1..MaxCols}

\* data cells placed on a blank background
DataCells ==
    {Txt("0"), Txt(" "), Txt("nan"), Txt("NaN"), Txt("x"), Txt(" y "),
     Txt("#N/A"), Txt("None"), Num(0), Num(12)}

DataWidths == {2, KeyColumnLimit + 1}

DataPositions(w) == {1, Min(w, KeyColumnLimit), w}

\* a row of width w: all NaN, or NaN with one data cell at position p
DataRows(w) ==
    {[c \in 1..w |-> NaN]}
    \cup {[c \in 1..w |-> IF c = p THEN v ELSE NaN] :
             p \in DataPositions(w), v \in DataCells}

Sheets == UNION {[1..n -> DataRows(w)] : n \in 1..MaxRows, w \in DataWidths}

\* Schema snapshots: keys of PRAGMA table_info, lower-cased, in table order
Schemas ==
    {<<"id", "project_id", "company", "region", "plant", "customer",
       "description", "budget_6", "budget_7", "created_at">>,
     <<"id", "company", "region", "plant", "customer", "created_at">>,
     <<"id", "description", "net_value_eur", "budget_2", "created_at">>,
     <<"id", "column_0", "column_1", "created_at">>}

\* the sample questions of _show_help and /sample_questions
SampleQuestions ==
    {"How many projects are there?", "Count projects by company",
     "Show all companies", "List all regions", "What is the total budget?",
     "Show projects by region", "Count projects by customer",
     "What is the average budget by company?",
     "Show the project with maximum budget", "List all customers",
     "Show all plants", "Count projects by investment category"}

Phrases ==
    <<"count", "how many", "total", "average", "show", "highest", "lowest",
      "budget", "projects", "by company", "by region", "per customer",
      "companies", "Plants ">>

RECURSIVE JoinPhrases(_)
JoinPhrases(ps) ==
    IF Len(ps) = 0 THEN ""
    ELSE IF Len(ps) = 1 THEN Phrases[ps[1]]
    ELSE Phrases[ps[1]] \o " " \o JoinPhrases(Tail(ps))

\* questions asking for an extreme value by its own keyword
KeywordQuestions ==
    {"What is the maximum budget?", "What is the minimum budget?",
     "What is the largest value?", "Which plant is the smallest?"}

Questions ==
    SampleQuestions
    \cup KeywordQuestions
    \cup {JoinPhrases(ps) : ps \in UNION {[1..n -> 1..Len(Phrases)] : n \in 1..MaxWords}}

(***************************************************************************)
(* Inputs of boundary detection                                            *)
(***************************************************************************)
SheetWidth == 4

\* rows by what the scans see in them: four indicator hits, three hits,
\* every cell filled, half, a quarter holding an instruction word
HeaderLikeRow == <<Txt("Company"), Txt("Region"), Txt("Plant"), Txt("Budget")>>

NearHeaderRow == <<Txt("Company"), Txt("Region"), Txt("Plant"), NaN>>

FullRow == <<Txt("x"), Num(12), Txt("y"), Txt("z")>>

HalfRow == <<Txt("x"), NaN, Txt(" "), Txt("z")>>

InstructionRow == <<Txt("Mandatory"), NaN, NaN, NaN>>

BlankRow == [c \in 1..SheetWidth |-> NaN]

MarkedRowKinds == {HeaderLikeRow, NearHeaderRow, FullRow, HalfRow}

\* sheet lengths and row indices around the limits of the three scans
SheetLengths ==
    {1, 3, FallbackHeaderRow + 1, DensityScanLimit + 1, HeaderScanLimit + 1}

MarkedPositions ==
    {0, 1, FallbackHeaderRow, DensityScanLimit - 1, DensityScanLimit,
     HeaderScanLimit - 1, HeaderScanLimit}

\* the ways of marking at most MaxMarked rows of a sheet of n rows
Markings(n) ==
    UNION {[S -> MarkedRowKinds] :
              S \in {S \in SUBSET {i \in MarkedPositions : i < n} :
                        Cardinality(S) <= MaxMarked}}

\* sheets of n rows of one background row kind with marked rows laid over it
SheetsOfLength(n) ==
    {[r \in 1..n |-> IF (r - 1) \in DOMAIN m THEN m[r - 1] ELSE bg] :
        m \in Markings(n), bg \in {BlankRow, InstructionRow}}

BoundarySheets == UNION {SheetsOfLength(n) : n \in SheetLengths}

(***************************************************************************)
(* Inputs of the whole system                                              *)
(***************************************************************************)
FileHeaders ==
    {<<Txt("Company"), Txt("Region")>>, <<Txt("Company"), Txt("Budget (EUR)")>>,
     <<Txt("ID"), Txt("Region")>>, <<Txt("Plant"), NaN>>}

FileRows ==
    {<<Txt("Acme"), Txt("North")>>, <<Txt("Bolt"), Num(12)>>, <<Txt("0"), Txt("nan")>>,
     <<NaN, NaN>>, <<Txt("Optional"), NaN>>}

\* source files: a header row and up to MaxRows rows, or a single blank row
SourceFiles ==
    {<<h>> \o rows : h \in FileHeaders,
                     rows \in UNION {[1..n -> FileRows] : n \in 0..MaxRows}}
    \cup {<<<<NaN, NaN>>>>}

\* the files the running system sees replaced by one another
SystemFiles ==
    {<<<<Txt("Company"), Txt("Region")>>, <<Txt("Acme"), Txt("North")>>,
       <<Txt("Bolt"), Txt("0")>>>>,
     <<<<Txt("Company"), Txt("Region")>>>>,
     <<<<Txt("Plant"), Txt("Budget (EUR)")>>, <<Txt("P1"), Num(12)>>>>,
     <<<<NaN, NaN>>>>}

SystemQuestions ==
    {"Show all companies", "List all regions", "What is the total budget?"}

NoStats == [error |-> FALSE, total_projects |-> 0, unique_companies |-> 0,
            unique_regions |-> 0, total_columns |-> 0]

(***************************************************************************)
(* State machine                                                           *)
(***************************************************************************)
\* nothing ingested, nothing asked
Fresh ==
    /\ header_row = 0
    /\ data_start_row = 0
    /\ headers = <<>>
    /\ filtered_df = <<>>
    /\ data_df = <<>>
    /\ schema = <<>>
    /\ question = ""
    /\ intent = ""
    /\ sql_query = ""
    /\ table = NoTable
    /\ runs = 0
    /\ result = NoResult
    /\ success = FALSE
    /\ listing = <<>>
    /\ stats = NoStats

\* find_data_boundaries applied to one raw sheet
InitBoundaries ==
    /\ Fresh
    /\ file = <<>>
    /\ df \in BoundarySheets
    /\ bot = "none"
    /\ pc = "boundaries"

\* create_careful_headers applied to one header row
InitHeaders ==
    /\ df \in {<<r>> : r \in HeaderRows}
    /\ header_row = 0
    /\ data_start_row = 1
    /\ headers = <<>>
    /\ filtered_df = <<>>
    /\ data_df = <<>>
    /\ schema = <<>>
    /\ question = ""
    /\ intent = ""
    /\ sql_query = ""
    /\ pc = "headers"
    /\ file = <<>> /\ table = NoTable /\ runs = 0 /\ bot = "none"
    /\ result = NoResult /\ success = FALSE /\ listing = <<>> /\ stats = NoStats

\* extract_actual_data and ultra_careful_cleaning applied to a sheet whose
\* header row was blank
InitRows ==
    /\ df \in Sheets
    /\ header_row = 0
    /\ data_start_row \in 0..Len(df)
    /\ headers = [c \in 1..Len(df[1]) |-> ColumnName(c - 1)]
    /\ filtered_df = <<>>
    /\ data_df = <<>>
    /\ schema = <<>>
    /\ question = ""
    /\ intent = ""
    /\ sql_query = ""
    /\ pc = "extract"
    /\ file = <<>> /\ table = NoTable /\ runs = 0 /\ bot = "none"
    /\ result = NoResult /\ success = FALSE /\ listing = <<>> /\ stats = NoStats

\* a chatbot constructed over a table, about to answer one question
InitQuery ==
    /\ df = <<>>
    /\ header_row = 0
    /\ data_start_row = 1
    /\ headers = <<>>
    /\ filtered_df = <<>>
    /\ data_df = <<>>
    /\ schema \in Schemas
    /\ question \in Questions
    /\ intent = ""
    /\ sql_query = ""
    /\ pc = "ask"
    /\ file = <<>> /\ table = NoTable /\ runs = 0 /\ bot = "ready"
    /\ result = NoResult /\ success = FALSE /\ listing = <<>> /\ stats = NoStats

\* a source file on disk, no table yet, no process running
InitRerun ==
    /\ Fresh
    /\ file \in SourceFiles
    /\ df = <<>>
    /\ bot = "none"
    /\ pc = "idle"

Init ==
    /\ Fresh
    /\ file \in SystemFiles
    /\ df = <<>>
    /\ bot = "none"
    /\ pc = "idle"

\* main, step 1: a run of the ingestion script starts and reads the file
ReadFile ==
    /\ pc \in {"idle", "error"}
    /\ runs < MaxRuns
    /\ runs' = runs + 1
    /\ df' = file
    /\ header_row' = 0
    /\ data_start_row' = 0
    /\ headers' = <<>>
    /\ filtered_df' = <<>>
    /\ data_df' = <<>>
    /\ pc' = "boundaries"
    /\ UNCHANGED <<schema, askVars, file, table, bot, listing, stats>>

\* main, step 3
FindDataBoundaries ==
    /\ pc = "boundaries"
    /\ \E boundaries \in {find_data_boundaries(df)} :
          /\ header_row' = boundaries[1]
          /\ data_start_row' = boundaries[2]
    /\ pc' = "headers"
    /\ UNCHANGED <<df, headers, filtered_df, data_df, schema, askVars,
                   file, table, runs, bot, listing, stats>>

\* main, step 4: df.iloc[header_row] raises when the row is not in the sheet
CreateCarefulHeaders ==
    /\ pc = "headers"
    /\ IF header_row < Len(df)
       THEN /\ headers' = create_careful_headers(df, header_row)
            /\ pc' = "extract"
       ELSE /\ headers' = headers
            /\ pc' = "error"
    /\ UNCHANGED <<df, header_row, data_start_row, filtered_df, data_df,
                   schema, askVars, file, table, runs, bot, listing, stats>>

\* main, step 5
ExtractActualData ==
    /\ pc = "extract"
    /\ filtered_df' = extract_actual_data(df, data_start_row)
    /\ pc' = "clean"
    /\ UNCHANGED <<df, header_row, data_start_row, headers, data_df,
                   schema, askVars, file, table, runs, bot, listing, stats>>

\* main, step 6
UltraCarefulCleaning ==
    /\ pc = "clean"
    /\ data_df' = ultra_careful_cleaning(filtered_df)
    /\ pc' = "database"
    /\ UNCHANGED <<df, header_row, data_start_row, headers, filtered_df,
                   schema, askVars, file, table, runs, bot, listing, stats>>

\* main, step 7: the whole try block; the run ends and its locals with it
CreateDatabase ==
    /\ pc = "database"
    /\ table' = NewTable(table, headers, data_df)
    /\ df' = <<>>
    /\ header_row' = 0
    /\ data_start_row' = 0
    /\ headers' = <<>>
    /\ filtered_df' = <<>>
    /\ data_df' = <<>>
    /\ pc' = "idle"
    /\ UNCHANGED <<schema, askVars, file, runs, bot, listing, stats>>

\* the source file is replaced by another one
ReplaceFile ==
    /\ pc \in {"idle", "error"}
    /\ file' \in SystemFiles \ {file}
    /\ UNCHANGED <<ingestVars, schema, askVars, pc, table, runs, bot, listing, stats>>

\* InvestmentDataChatbot.__init__ (the module-level chatbot of webapp.py)
Construct ==
    /\ bot = "none"
    /\ bot' = "ready"
    /\ schema' = get_table_schema(table)
    /\ UNCHANGED <<ingestVars, askVars, pc, file, table, runs, listing, stats>>

\* ask_question (and POST /ask): generate, execute, set the success flag
AskQuestion(q) ==
    /\ bot = "ready"
    /\ question' = q
    /\ intent' = Dispatch(NormalizeQuestion(q))
    /\ \E sch \in {schema_in_use(schema, table)} :
       \E sql \in {natural_language_to_sql(q, sch)} :
       \E res \in {execute_query(sql, table)} :
          /\ schema' = sch
          /\ sql_query' = sql
          /\ result' = res
          /\ success' = success_flag(res)
    /\ UNCHANGED <<ingestVars, pc, file, table, runs, bot, listing, stats>>

\* show_available_columns (and GET /columns)
ShowAvailableColumns ==
    /\ bot = "ready"
    /\ listing' = schema
    /\ UNCHANGED <<ingestVars, schema, askVars, pc, file, table, runs, bot, stats>>

\* GET /stats
GetStats ==
    /\ bot = "ready"
    /\ stats' = get_stats(table, schema)
    /\ UNCHANGED <<ingestVars, schema, askVars, pc, file, table, runs, bot, listing>>

\* _natural_language_to_sql on the question, against the schema snapshot
NaturalLanguageToSql ==
    /\ pc = "ask"
    /\ intent' = Dispatch(NormalizeQuestion(question))
    /\ sql_query' = natural_language_to_sql(question, schema)
    /\ pc' = "answered"
    /\ UNCHANGED <<ingestVars, schema, question, result, success,
                   file, table, runs, bot, listing, stats>>

NextBoundaries == FindDataBoundaries \/ CreateCarefulHeaders

NextHeaders == CreateCarefulHeaders

NextRows == ExtractActualData \/ UltraCarefulCleaning

NextQuery == NaturalLanguageToSql

NextRerun ==
    \/ ReadFile
    \/ FindDataBoundaries
    \/ CreateCarefulHeaders
    \/ ExtractActualData
    \/ UltraCarefulCleaning
    \/ CreateDatabase

Next ==
    \/ NextRerun
    \/ ReplaceFile
    \/ Construct
    \/ \E q \in SystemQuestions : AskQuestion(q)
    \/ ShowAvailableColumns
    \/ GetStats

SpecBoundaries == InitBoundaries /\ [][NextBoundaries]_vars

SpecHeaders == InitHeaders /\ [][NextHeaders]_vars

SpecRows == InitRows /\ [][NextRows]_vars

SpecQuery == InitQuery /\ [][NextQuery]_vars

SpecRerun == InitRerun /\ [][NextRerun]_vars

Spec == Init /\ [][Next]_vars

(***************************************************************************)
(* Header naming                                                           *)
(***************************************************************************)

\* C1: the names returned for a header row are as many as the row has
\* cells, pairwise different, and none is the empty string.
HeaderNamesWellFormed ==
    pc = "extract" =>
        /\ Len(headers) = Len(Row(df, header_row))
        /\ \A i, j \in 1..Len(headers) : i # j => headers[i] # headers[j]
        /\ \A i \in 1..Len(headers) : headers[i] # ""

\* a row with a blank cell, a label that cleans to nothing and a repeated
\* label has been named
HeaderNamesWitness ==
    /\ pc = "extract"
    /\ \E i, j, k \in 1..Len(Row(df, header_row)) :
         LET row == Row(df, header_row) IN
         /\ i < j
         /\ Lower(Strip(Str(row[i]))) = Lower(Strip(Str(row[j])))
         /\ row[i] # NaN
         /\ row[k] \in {NaN, Txt("()")}
         /\ headers[j] = headers[i] \o "_1"

\* C2: no returned column name is longer than 60 characters, de-duplicated
\* names included.
HeaderNamesAtMost60 ==
    pc = "extract" => \A i \in 1..Len(headers) : Len(headers[i]) <= 60

(***************************************************************************)
(* Row extraction and blank normalization                                  *)
(***************************************************************************)
WhitespaceOnly(text) == \A i \in 1..Len(text) : IsWs(Ch(text, i))

BlankLike(text) ==
    \/ text = ""
    \/ WhitespaceOnly(text)
    \/ text \in {"nan", "NaN", "<NA>", "None"}
    \/ text \in {"#VALUE!", "#REF!", "#DIV/0!", "#N/A", "#NAME?", "#NULL!", "#NUM!"}

\* C3: a retained cell is stored as "0" exactly when its text is empty,
\* whitespace-only, a NaN rendering or one of the 7 error codes; any other
\* text is stored unchanged.
BlankNormalization ==
    pc = "database" =>
        /\ Len(data_df) = Len(filtered_df)
        /\ \A r \in 1..Len(filtered_df) :
             /\ Len(data_df[r]) = Len(filtered_df[r])
             /\ \A c \in 1..Len(filtered_df[r]) :
                  LET text == Str(filtered_df[r][c]) IN
                  data_df[r][c] = IF BlankLike(text) THEN "0" ELSE text

\* an error code was replaced by the sentinel next to text kept as it was
BlankNormalizationWitness ==
    /\ pc = "database"
    /\ \E r1, r2 \in 1..Len(filtered_df) :
         \E c1 \in 1..Len(filtered_df[r1]), c2 \in 1..Len(filtered_df[r2]) :
            /\ Str(filtered_df[r1][c1]) = "#N/A"
            /\ data_df[r1][c1] = "0"
            /\ Str(filtered_df[r2][c2]) = " y "
            /\ data_df[r2][c2] = " y "

\* the retention test, on a row as read from the raw sheet
Retained(row) ==
    \E c \in 1..Len(row) :
        /\ c <= 5
        /\ ~IsNa(row[c])
        /\ ~WhitespaceOnly(Str(row[c]))
        /\ Str(row[c]) # "0"
        /\ Str(row[c]) \notin {"nan", "NaN"}

\* 1-based indices of the rows at or after dataStartRowIndex that pass
KeptIndices == {k \in (data_start_row + 1)..Len(df) : Retained(df[k])}

\* C4: the extracted rows are exactly the rows at or after dataStartRowIndex
\* with a non-blank, non-"0", non-NaN cell among the first min(5, count)
\* cells, each whole and in the sheet's order.
RowRetention ==
    pc \in {"clean", "database"} =>
        /\ Len(filtered_df) = Cardinality(KeptIndices)
        /\ \A j \in 1..Len(filtered_df) :
             \E k \in KeptIndices :
                /\ Cardinality({m \in KeptIndices : m <= k}) = j
                /\ filtered_df[j] = df[k]

\* a row whose only content lies beyond the fifth column was dropped and a
\* later row was kept
RowRetentionWitness ==
    /\ pc = "clean"
    /\ Len(filtered_df) = 1
    /\ \E k \in (data_start_row + 1)..Len(df) :
         /\ Len(df[k]) > 5
         /\ Str(df[k][Len(df[k])]) = "x"
         /\ k < Len(df)
         /\ filtered_df[1] = df[k + 1]

(***************************************************************************)
(* Intent classification and SQL generation                                *)
(***************************************************************************)
IntentOrder == <<"COUNT", "SUM", "AVG", "SELECT", "MAX", "MIN">>

GroupKeywords(g) ==
    CASE g = "COUNT" -> {"count", "how many", "number of"}
      [] g = "SUM" -> {"total", "sum", "amount"}
      [] g = "AVG" -> {"average", "avg", "mean"}
      [] g = "SELECT" -> {"list", "show", "display", "get"}
      [] g = "MAX" -> {"maximum", "max", "highest", "largest"}
      [] g = "MIN" -> {"minimum", "min", "lowest", "smallest"}

Mentions(g, text) == \E w \in GroupKeywords(g) : Contains(Lower(text), w)

\* C5: the intent is that of the first keyword group, in the order COUNT,
\* SUM, AVG, SELECT, MAX, MIN, that the question matches, generic if none
\* matches; a question with both "count" and "average" is COUNT.
IntentPriority ==
    pc = "answered" =>
        /\ \A n \in 1..Len(IntentOrder) :
             intent = IntentOrder[n] <=>
                /\ Mentions(IntentOrder[n], question)
                /\ \A m \in 1..(n - 1) : ~Mentions(IntentOrder[m], question)
        /\ intent = "GENERAL" <=>
             \A n \in 1..Len(IntentOrder) : ~Mentions(IntentOrder[n], question)
        /\ (Contains(Lower(question), "count") /\ Contains(Lower(question), "average"))
             => intent = "COUNT"

\* a question with "average" and "count" was classified
IntentPriorityWitness ==
    /\ pc = "answered"
    /\ Contains(Lower(question), "count")
    /\ Contains(Lower(question), "average")
    /\ intent = "COUNT"

\* the question speaks of the dimension (singular or plural)
NamesDimension(text, d) ==
    Contains(Lower(text), IF d = "company" THEN "compan" ELSE d)

ExcludesBlank(sql, d) ==
    /\ Contains(sql, d \o " is not null")
    /\ Contains(sql, d \o " != ''")
    /\ Contains(sql, d \o " != '0'")

IsDistinctListing(sql, d) ==
    /\ Contains(Lower(sql), "select distinct " \o d \o " from investment_projects where ")
    /\ ExcludesBlank(Lower(sql), d)
    /\ EndsWith(Lower(sql), " order by " \o d)

\* C6: a SELECT-intent question naming one of company, region, customer,
\* plant yields SELECT DISTINCT of that dimension, without null, '' and
\* '0', ordered ascending by it.
DimensionListing ==
    (pc = "answered" /\ intent = "SELECT") =>
        \A d \in {"company", "region", "customer", "plant"} :
            (/\ NamesDimension(question, d)
             /\ \A e \in {"company", "region", "customer", "plant"} \ {d} :
                    ~NamesDimension(question, e))
            => IsDistinctListing(sql_query, d)

IsGroupedCount(sql, d) ==
    /\ Contains(Lower(sql), "select " \o d \o ", count(*)")
    /\ Contains(Lower(sql), " from investment_projects where ")
    /\ ExcludesBlank(Lower(sql), d)
    /\ Contains(Lower(sql), " group by " \o d \o " ")
    /\ EndsWith(Lower(sql), " order by count desc")

GroupsBy(text, d) ==
    Contains(Lower(text), "by " \o d) \/ Contains(Lower(text), "per " \o d)

\* C7: a COUNT-intent question with "by <dimension>" or "per <dimension>",
\* dimension one of company, region, customer, yields COUNT(*) grouped by
\* that dimension, without null, '' and '0', ordered descending by count.
GroupedCountByDimension ==
    (pc = "answered" /\ intent = "COUNT") =>
        ((\E d \in {"company", "region", "customer"} : GroupsBy(question, d))
         => \E d \in {"company", "region", "customer"} :
               GroupsBy(question, d) /\ IsGroupedCount(sql_query, d))

BudgetLike(col) ==
    Contains(col, "budget") \/ Contains(col, "total") \/ Contains(col, "value")

HasBudgetLike == \E k \in 1..Len(schema) : BudgetLike(schema[k])

FirstBudgetLike ==
    schema[CHOOSE k \in 1..Len(schema) :
              BudgetLike(schema[k]) /\ \A m \in 1..(k - 1) : ~BudgetLike(schema[m])]

UsesFirstBudgetLike ==
    (HasBudgetLike /\ intent \in {"SUM", "AVG", "MAX", "MIN"})
      => Contains(sql_query, "(CAST(" \o FirstBudgetLike \o " AS REAL))")

\* C8 as stated: without a budget-like column every SUM, AVG, MAX or MIN
\* question yields the unfiltered COUNT(*); with one, the value column is
\* the first budget-like column in schema order.
AggregateFallbackIsCount ==
    pc = "answered" =>
        /\ (~HasBudgetLike /\ intent \in {"SUM", "AVG", "MAX", "MIN"})
             => sql_query = "SELECT COUNT(*) as count FROM investment_projects"
        /\ UsesFirstBudgetLike

\* C8 as amended: without a budget-like column a SUM or AVG question yields
\* the unfiltered COUNT(*) and a MAX or MIN question yields
\* SELECT * ... LIMIT 1; with one, the value column is the first budget-like
\* column in schema order.
AggregateFallback ==
    pc = "answered" =>
        /\ (~HasBudgetLike /\ intent \in {"SUM", "AVG"})
             => sql_query = "SELECT COUNT(*) as count FROM investment_projects"
        /\ (~HasBudgetLike /\ intent \in {"MAX", "MIN"})
             => sql_query = "SELECT * FROM investment_projects LIMIT 1"
        /\ UsesFirstBudgetLike

\* both halves in one run of states: a MAX or MIN question without a
\* budget-like column
AggregateFallbackWitness ==
    /\ pc = "answered"
    /\ intent \in {"MAX", "MIN"}
    /\ ~HasBudgetLike

\* C9: a generated query with GROUP BY on a dimension excludes the
\* dimension being null, being '' and being '0'.
GroupByExcludesBlank ==
    (pc = "answered" /\ Contains(sql_query, " GROUP BY ")) =>
        \E d \in {"company", "region", "customer", "plant"} :
            /\ Contains(Lower(sql_query), " group by " \o d \o " ")
            /\ ExcludesBlank(Lower(sql_query), d)

\* C10: the generated statement names only columns of the Schema.
SqlNamesOnlySchemaColumns ==
    pc = "answered" => NamedColumns(sql_query) \subseteq RangeOf(schema)

(***************************************************************************)
(* Boundary detection                                                      *)
(***************************************************************************)
\* row indices the indicator scan and the density scan look at
ScoreScanned == 0..(Min(HeaderScanLimit, Len(df)) - 1)

DensityScanned == 0..(Min(DensityScanLimit, Len(df)) - 1)

Scoring == {i \in ScoreScanned : HeaderScore(Row(df, i)) >= HeaderScoreNeeded}

\* rows of the density scan whose fraction of non-blank cells is above 0.3
\* and is not exceeded by any scanned row
Densest ==
    LET filled == [i \in DensityScanned |-> NonEmptyCount(Row(df, i))]
    IN {i \in DensityScanned :
           /\ 10 * filled[i] > 3 * Len(Row(df, i))
           /\ \A j \in DensityScanned : filled[j] <= filled[i]}

\* C14: the header row index is the earliest of the first 25 rows scoring at
\* least 4 indicator hits; failing that, the earliest of the first 15 rows
\* with the highest fraction of non-blank cells, if that fraction is above
\* 0.3; failing that, the fixed index 8.
HeaderRowSelection ==
    pc = "headers" =>
        header_row = IF Scoring # {} THEN SetMin(Scoring)
                     ELSE IF Densest # {} THEN SetMin(Densest)
                     ELSE 8

\* the density scan decided between two rows of the same, highest fraction
HeaderRowSelectionWitness ==
    /\ pc = "headers"
    /\ Scoring = {}
    /\ Cardinality(Densest) >= 2
    /\ header_row = SetMin(Densest)

\* C15: for every sheet with at least one row, boundary detection returns a
\* pair whose header row index is an existing row of the sheet and whose
\* data start lies 1 to 11 rows after it, and the header-naming step that
\* follows never reads a row outside the sheet.
BoundariesUsable ==
    (pc # "boundaries" /\ Len(df) >= 1) =>
        /\ header_row \in 0..(Len(df) - 1)
        /\ header_row < data_start_row
        /\ data_start_row <= header_row + 11
        /\ pc # "error"

(***************************************************************************)
(* MAX and MIN by their own keywords                                       *)
(***************************************************************************)
IsLetter(s, i) == \E k \in 1..Len(LowerAlphabet) : Ch(LowerAlphabet, k) = Ch(s, i)

\* the words of a text: its maximal runs of letters, lower-cased
Words(text) ==
    LET s == Lower(text)
    IN {SubSeq(s, i, SetMin({j \in i..Len(s) : j = Len(s) \/ ~IsLetter(s, j + 1)})) :
           i \in {i \in 1..Len(s) : IsLetter(s, i) /\ (i = 1 \/ ~IsLetter(s, i - 1))}}

\* the text has a keyword of the group as a word (a keyword of two words: as
\* a phrase)
SaysKeyword(g, text) ==
    \E k \in GroupKeywords(g) :
        IF Contains(k, " ") THEN Contains(Lower(text), k) ELSE k \in Words(text)

AsksOnlyFor(g, text) ==
    /\ SaysKeyword(g, text)
    /\ \A e \in {"COUNT", "SUM", "AVG", "SELECT", "MAX", "MIN"} \ {g} :
         ~SaysKeyword(e, text)

\* C16: a question with a MAX (resp. MIN) keyword, none of whose words is a
\* keyword of the COUNT, SUM, AVG or list/show/display/get groups, is
\* classified MAX (resp. MIN) and, when the schema has a budget-like column,
\* rendered with the MAX (resp. MIN) template over that column.
ExtremeByOwnKeyword ==
    pc = "answered" =>
        /\ AsksOnlyFor("MAX", question) =>
             /\ intent = "MAX"
             /\ HasBudgetLike =>
                  Contains(sql_query, "MAX(CAST(" \o FirstBudgetLike \o " AS REAL))")
        /\ AsksOnlyFor("MIN", question) =>
             /\ intent = "MIN"
             /\ HasBudgetLike =>
                  Contains(sql_query, "MIN(CAST(" \o FirstBudgetLike \o " AS REAL))")

(***************************************************************************)
(* The running system                                                      *)
(***************************************************************************)
\* C11: a failure in the store yields an empty result with success = false,
\* and a statement that executes without failure yields success = true even
\* when it returns no rows, so the flag tells "no rows" from "query failed".
SuccessTellsFailure ==
    result.done =>
        /\ result.failed => (result.nrows = 0 /\ success = FALSE)
        /\ ~result.failed => success = TRUE

\* the shape of a table: whether it exists, its column names, its row count
Shape(tbl) == <<tbl.exists, tbl.columns, Len(tbl.rows)>>

\* C12: a second or later run of the ingestion on the same source file
\* leaves the table with the row count and the column names the run before
\* left; no row of an earlier run is kept or duplicated.
IdempotentRerun ==
    [][(pc = "database" /\ pc' = "idle" /\ runs >= 2) => Shape(table') = Shape(table)]_vars

\* a later run has stored the rows of a file that has rows to store
IdempotentRerunWitness ==
    /\ runs >= 2
    /\ pc = "idle"
    /\ table.exists
    /\ Len(table.rows) >= 2

\* C13: once the chatbot is constructed no step changes its schema, whether
\* a question, a column listing, a statistics request or a re-ingestion
\* that changes the table's columns, and every statement generated later is
\* the one generated from that schema.
SchemaSnapshot ==
    [][/\ bot = "ready" => schema' = schema
       /\ (bot = "ready" /\ <<question, sql_query>>' # <<question, sql_query>>)
            => sql_query' = natural_language_to_sql(question', schema)]_vars

\* a question was answered from a schema that names a column the table has
\* no more: the table was rebuilt from another file after construction
SchemaSnapshotWitness ==
    /\ bot = "ready"
    /\ schema # <<>>
    /\ table.exists
    /\ get_table_schema(table) # schema
    /\ result.done
    /\ result.failed
====
